---------------------------- MODULE Spec2Model ----------------------------
(***************************************************************************)
(* A model of the moro scope engine: Scope (src/src/scope.rs) and the Join *)
(* Driver Body (src/src/body.rs).                                          *)
(*                                                                         *)
(* Actor 0 is the body future, actors 1..MaxTasks are the futures pushed   *)
(* by Scope::spawn, Scope::spawn_cancelling and Scope::cancel, numbered in *)
(* the order of the calls.  What user code does when it is resumed is an   *)
(* input: a resumed actor takes any of the operations the API allows       *)
(* (spawn, await a handle, cancel, suspend on an outside event, yield,     *)
(* return).  The drive loop, the FuturesUnordered it drives, the result    *)
(* channels and the wake-ups are deterministic and follow the code.        *)
(*                                                                         *)
(* Option<T> is modelled as a sequence: <<>> is None, <<v>> is Some(v).    *)
(***************************************************************************)
EXTENDS Naturals, Sequences, FiniteSets

\* Bounds of the model.
MaxTasks == 3      \* futures pushed on `enqueued` over the life of a scope
MaxVal == 2        \* distinct values a cancel call may carry

Actors == 0..MaxTasks
Tasks == 1..MaxTasks

\* Cancellation values and task outputs are numbers of disjoint ranges, so
\* that a result says where it came from: a cancel call carries 100 + i, a
\* task returns its number plus what it received.
CancelVals == {100 + i : i \in 1..MaxVal}
None == <<>>
Some(v) == <<v>>

\* Poll<Result<(), C>> as poll_jobs returns it (scope.rs 52), and "none" while
\* no call has returned.
PjNone == [tag |-> "none", val |-> 0]
PjPending == [tag |-> "pending", val |-> 0]
PjDrained == [tag |-> "drained", val |-> 0]
PjTerminated(c) == [tag |-> "terminated", val |-> c]

VARIABLES
    \* ---- Scope (scope.rs 14-25)
    futures,      \* the FuturesUnordered: the set of futures linked in it
    rtr,          \* its ready-to-run queue (pushed or woken, not yet polled)
    enqueued,     \* Vec of futures spawned and not yet moved into `futures`
    cancelled,    \* Option<C>
    \* ---- Body (body.rs 13-24)
    body_future,  \* TRUE: Some(F), FALSE: None
    result,       \* Option<R>
    scope,        \* TRUE while Body holds its Arc<Scope>
    \* ---- the executor's view of Body as a future
    pc,           \* position of the thread inside Body::poll / Drop, or "idle"
    notified,     \* the waker handed to Body::poll has been woken
    output,       \* what Body::poll returned Ready with (Option)
    \* ---- locals of poll_jobs / poll_next
    cur,          \* the actor being polled
    len, polled, yielded, curWoken,
    pjret,        \* the value poll_jobs returned to Body::poll
    \* ---- the futures themselves
    ntasks,       \* futures created so far
    kind,         \* how each was created: "spawn" | "spawn_cancelling" | "placeholder"
    st,           \* where each is: "none" (not created), "start" (never
                  \* polled), "run" (being polled), "recv" (in rx.recv()),
                  \* "ext" (waiting for an outside event), "ready" (woken
                  \* after an event or a yield), "done" (returned),
                  \* "discarded" / "dropped" (dropped before / after its
                  \* first poll, without having returned)
    on,           \* the handle an actor in rx.recv() waits on
    hold,         \* the handles (receivers) an actor owns
    acc,          \* sum of the values an actor received from handles
    chan,         \* the capacity-one channel of each task: Option of value
    panicked,     \* "" or the panic that unwound the thread
    \* ---- history
    firstTerm,    \* Option: the value of the first cancel call
    lastTerm,     \* Option: the value of the latest cancel call
    lateSpawn,    \* tasks pushed while `cancelled` was Some
    erred,        \* spawn_cancelling tasks whose future returned Err
    \* ---- Scope::cancel_if_err / unwrap_or_cancel
    given,        \* Option: the Result the call being made was given
    got,          \* Option: the value the latest such call returned
    \* ---- history of the driver, kept by DrainSpec only
    drainedAt,    \* Option: `ntasks` when poll_jobs last returned
                  \* Ready(Ok(())) with the body's result not yet stored
    \* ---- the three Mutexes of Scope (scope.rs 21-23)
    locks         \* held: the mutexes whose guard the polling thread holds;
                  \* waits: Option, the mutex it is blocked on;
                  \* order: the pairs <<a, b>> such that b was locked while
                  \* a was held

vars == <<futures, rtr, enqueued, cancelled, body_future, result, scope, pc,
          notified, output, cur, len, polled, yielded, curWoken, pjret,
          ntasks, kind, st, on, hold, acc, chan, panicked,
          firstTerm, lastTerm, lateSpawn, erred, given, got, drainedAt,
          locks>>

scopeVars == <<futures, rtr, enqueued, cancelled>>
bodyVars == <<body_future, result, scope, output>>
loopVars == <<len, polled, yielded, curWoken, pjret>>
actorVars == <<ntasks, kind, st, on, hold, acc, chan>>
histVars == <<firstTerm, lastTerm, lateSpawn, erred>>
resultVars == <<given, got>>

-----------------------------------------------------------------------------
\* Helpers

InSeq(x, s) == \E i \in 1..Len(s) : s[i] = x

SeqSet(s) == {s[i] : i \in 1..Len(s)}

\* A future that still exists and has not run to completion.
Live(a) == st[a] \in {"start", "run", "recv", "ext", "ready"}

\* The receiving end of task t's channel exists: some actor owns the handle.
HandleAlive(t) == \E a \in Actors : t \in hold[a]

\* The actor whose rx.recv() registered a listener on t's channel.
Listeners(t) == {a \in Actors : st[a] = "recv" /\ on[a] = t}

\* Waking a set W of actors.  The body runs with Body::poll's own context, so
\* its waker is the driver's.  A task in FuturesUnordered is put on the
\* ready-to-run queue unless it is already there, and only then is the waker
\* registered by poll_next (the driver's) woken.
WakeRtr(W, q) ==
    LET new == {t \in W \ {0} : t \in futures /\ ~InSeq(t, q)}
        RECURSIVE App(_, _)
        App(S, s) == IF S = {} THEN s
                     ELSE LET x == CHOOSE y \in S : \A z \in S : y <= z
                          IN App(S \ {x}, Append(s, x))
    IN App(new, q)

\* Mutant of WakeNotifies: the wake-up does not reach the driver.
WakeNotifies_Lost(W, q) == FALSE

WakeNotifies(W, q) ==
    0 \in W \/ \E t \in W \ {0} : t \in futures /\ ~InSeq(t, q)

-----------------------------------------------------------------------------
\* The Mutexes of Scope (scope.rs 21-23).  std::sync::Mutex is not
\* re-entrant: a thread that locks a mutex it holds does not get it.  An
\* operation is given by the lock and unlock calls it makes, in order.

Mutexes == {"futures", "enqueued", "cancelled"}

Lock(m) == [op |-> "lock", m |-> m]
Unlock(m) == [op |-> "unlock", m |-> m]

NoLocks == <<>>

\* `self.m.lock().unwrap().f(..)`: the guard is a temporary, dropped at the
\* end of the statement (scope.rs 56, 60, 64, 69, 83, 84, 170, 204).
Briefly(m) == <<Lock(m), Unlock(m)>>

\* scope.rs 53: `let mut futures = self.futures.lock().unwrap()`, held until
\* poll_jobs returns (57, 62, 70) or unwinds.
PollJobsEntry == <<Lock("futures")>>
PollJobsReturn == <<Unlock("futures")>>
Unwind == <<Unlock("futures")>>

\* scope.rs 170 / 204: self.enqueued.lock().unwrap().push(..)
SpawnLocks == Briefly("enqueued")

\* Mutant of CancelLocks: the guard of `cancelled` is kept until cancel
\* returns.
CancelLocks_HeldAcross ==
    <<Lock("cancelled")>> \o SpawnLocks \o <<Unlock("cancelled")>>

\* scope.rs 113-120: lock, store, std::mem::drop(lock), then self.spawn(..)
CancelLocks == <<Lock("cancelled"), Unlock("cancelled")>> \o SpawnLocks

\* The lock state after the calls `ops`, made from the state l; the thread
\* stops at the first lock it cannot get.
RECURSIVE RunLocks(_, _)
RunLocks(l, ops) ==
    IF ops = <<>> \/ l.waits # None THEN l
    ELSE LET o == Head(ops) IN
         IF o.op = "unlock"
         THEN RunLocks([l EXCEPT !.held = @ \ {o.m}], Tail(ops))
         ELSE IF o.m \in l.held
         THEN [l EXCEPT !.waits = Some(o.m)]
         ELSE RunLocks([held |-> l.held \cup {o.m},
                        waits |-> None,
                        order |-> l.order \cup {<<h, o.m>> : h \in l.held}],
                       Tail(ops))

\* A step of the polling thread that makes the calls `ops`: a blocked
\* thread takes no step.
Locking(ops) ==
    /\ locks.waits = None
    /\ locks' = RunLocks(locks, ops)

-----------------------------------------------------------------------------
\* scope_fn (lib.rs 144-161), Scope::new (scope.rs 33-40), Body::new
\* (body.rs 33-39): empty collections, the body future not yet polled.  The
\* executor polls a future once when it is first awaited.

Init ==
    /\ futures = {}
    /\ rtr = <<>>
    /\ enqueued = <<>>
    /\ cancelled = None
    /\ body_future = TRUE
    /\ result = None
    /\ scope = TRUE
    /\ pc = "idle"
    /\ notified = TRUE
    /\ output = None
    /\ cur = 0
    /\ len = 0
    /\ polled = 0
    /\ yielded = 0
    /\ curWoken = FALSE
    /\ pjret = PjNone
    /\ ntasks = 0
    /\ kind = [t \in Tasks |-> "spawn"]
    /\ st = [a \in Actors |-> IF a = 0 THEN "start" ELSE "none"]
    /\ on = [a \in Actors |-> 0]
    /\ hold = [a \in Actors |-> {}]
    /\ acc = [a \in Actors |-> 0]
    /\ chan = [t \in Tasks |-> None]
    /\ panicked = ""
    /\ firstTerm = None
    /\ lastTerm = None
    /\ lateSpawn = {}
    /\ erred = {}
    /\ given = None
    /\ got = None
    /\ drainedAt = None
    /\ locks = [held |-> {}, waits |-> None, order |-> {}]

-----------------------------------------------------------------------------
\* Body::poll (body.rs 70-97)

\* The executor polls the Body when its waker has been woken.
PollStart ==
    /\ pc = "idle"
    /\ notified
    /\ notified' = FALSE
    /\ pc' = "body"
    /\ UNCHANGED <<resultVars, drainedAt>>
    /\ Locking(NoLocks)
    /\ UNCHANGED <<scopeVars, bodyVars, loopVars, actorVars, cur, panicked, histVars>>

\* What an actor's future does first when it is polled: a future polled for
\* the first time, or resumed after the event or the yield it suspended on,
\* runs on; one suspended in rx.recv() or on an event that has not fired
\* polls that again.
ResumeSt(a) ==
    IF st[a] \in {"start", "ready"} THEN "run" ELSE st[a]

\* body.rs 75-83: the body future is polled if it is still there.
PollBodyFuture ==
    /\ pc = "body"
    /\ body_future
    /\ cur' = 0
    /\ st' = [st EXCEPT ![0] = ResumeSt(0)]
    /\ pc' = "actor"
    /\ UNCHANGED <<resultVars, drainedAt>>
    /\ Locking(NoLocks)
    /\ UNCHANGED <<scopeVars, bodyVars, loopVars, ntasks, kind, on, hold, acc,
                   chan, notified, panicked, histVars>>

SkipBodyFuture ==
    /\ pc = "body"
    /\ ~body_future
    /\ pc' = "pj_check"
    /\ UNCHANGED <<resultVars, drainedAt>>
    /\ Locking(PollJobsEntry)
    /\ UNCHANGED <<scopeVars, bodyVars, loopVars, actorVars, cur, notified,
                   panicked, histVars>>

\* body.rs 77-80: Poll::Ready(r): the result is stored, the future dropped.
BodyReady ==
    /\ pc = "a_ready"
    /\ cur = 0
    /\ result' = Some(acc[0])
    /\ body_future' = FALSE
    /\ pc' = "pj_check"
    /\ UNCHANGED <<resultVars, drainedAt>>
    /\ Locking(PollJobsEntry)
    /\ UNCHANGED <<scopeVars, scope, output, loopVars, actorVars, cur, notified,
                   panicked, histVars>>

\* Mutant of AfterBodyPending: Body::poll returns when the body is pending.
AfterBodyPending_Return == "pj_ret"

\* body.rs 81-85: an empty arm; control falls through to poll_jobs.
AfterBodyPending == "pj_check"

\* body.rs 81: Poll::Pending => {}
BodyPending ==
    /\ pc = "a_pending"
    /\ cur = 0
    /\ pc' = AfterBodyPending
    /\ UNCHANGED <<resultVars, drainedAt>>
    /\ Locking(PollJobsEntry)
    /\ UNCHANGED <<scopeVars, bodyVars, loopVars, actorVars, cur, notified,
                   panicked, histVars>>

\* Mutants of Resolve: the stored result returned although poll_jobs is
\* Pending; the stored result preferred to the cancellation value.
Resolve_IgnorePending(pj, res) ==
    IF pj.tag = "terminated" THEN Some(pj.val) ELSE res

Resolve_PreferBody(pj, res) ==
    IF pj.tag \in {"terminated", "drained"} /\ res # None THEN res
    ELSE IF pj.tag = "terminated" THEN Some(pj.val)
    ELSE None

\* Mutant of Resolve: Ok(()) from poll_jobs ends the scope although the body
\* has stored no result.
Resolve_DrainedFinal(pj, res) ==
    IF pj.tag = "terminated" THEN Some(pj.val)
    ELSE IF pj.tag = "drained" THEN (IF res = None THEN Some(0) ELSE res)
    ELSE None

\* body.rs 90-96: what Body::poll returns for what poll_jobs returned (pj) and
\* the stored result (res): None stands for Poll::Pending.
Resolve(pj, res) ==
    IF pj.tag = "terminated" THEN Some(pj.val)
    ELSE IF pj.tag = "drained" THEN res
    ELSE None

\* body.rs 90-96: the match on what poll_jobs returned.  `ready!` returns
\* Pending at once; a cancellation value is forwarded; otherwise the result
\* is taken out of its slot and returned if it is there.
BodyMatchStep ==
    /\ pc = "pj_ret"
    /\ LET out == Resolve(pjret, result) IN
        /\ output' = out
        /\ pc' = IF out = None THEN "idle" ELSE "resolved"
        /\ result' = IF pjret.tag = "terminated" \/ pjret.tag = "pending"
                     THEN result ELSE None
    /\ pjret' = PjNone
    /\ cur' = 0
    /\ len' = 0
    /\ polled' = 0
    /\ yielded' = 0
    /\ curWoken' = FALSE
    /\ UNCHANGED resultVars
    /\ Locking(NoLocks)
    /\ UNCHANGED <<scopeVars, body_future, scope, actorVars, notified, panicked,
                   histVars>>

BodyMatch == BodyMatchStep /\ UNCHANGED drainedAt

\* The same step, with the history of the driver kept: body.rs 92-95,
\* Ok(()) with `this.result.take()` giving None is the return of Pending
\* although poll_jobs found nothing left to drive.
DrainedEarly == pjret.tag = "drained" /\ result = None

BodyMatchNoted ==
    /\ BodyMatchStep
    /\ drainedAt' = IF DrainedEarly THEN Some(ntasks) ELSE drainedAt

-----------------------------------------------------------------------------
\* Scope::poll_jobs (scope.rs 52-73)

\* Mutant of CancelledNow: the slot is not looked at.
CancelledNow_Never == FALSE

\* scope.rs 56: `if let Some(c) = self.cancelled.lock().unwrap().take()`
CancelledNow == cancelled # None

\* scope.rs 56-58: once cancelled, no more work: the value is taken out of
\* the slot and returned.
PjCheckCancelled ==
    /\ pc = "pj_check"
    /\ IF CancelledNow
       THEN /\ pjret' = PjTerminated(cancelled[1])
            /\ cancelled' = None
            /\ pc' = "pj_ret"
       ELSE /\ pc' = "pj_extend"
            /\ UNCHANGED <<pjret, cancelled>>
    /\ UNCHANGED <<resultVars, drainedAt>>
    /\ Locking(Briefly("cancelled")
                \o (IF CancelledNow THEN PollJobsReturn ELSE NoLocks))
    /\ UNCHANGED <<futures, rtr, enqueued, bodyVars, len, polled, yielded,
                   curWoken, actorVars, cur, notified, panicked, histVars>>

\* Mutant of AfterDrain: the futures are handed over but stay in the Vec.
AfterDrain_Kept(q) == q

\* scope.rs 60: what enqueued.drain(..) leaves in the Vec.
AfterDrain(q) == <<>>

\* scope.rs 60: futures.extend(enqueued.drain(..)).  FuturesUnordered::push
\* links the future and puts it on the ready-to-run queue.
PjExtend ==
    /\ pc = "pj_extend"
    /\ futures' = futures \cup SeqSet(enqueued)
    /\ rtr' = rtr \o enqueued
    /\ enqueued' = AfterDrain(enqueued)
    /\ pc' = "pn_start"
    /\ UNCHANGED <<resultVars, drainedAt>>
    /\ Locking(Briefly("enqueued"))
    /\ UNCHANGED <<cancelled, bodyVars, loopVars, actorVars, cur, notified,
                   panicked, histVars>>

\* scope.rs 62, FuturesUnordered::poll_next: the call starts by reading the
\* length and registering the caller's waker.
PollNextStart ==
    /\ pc = "pn_start"
    /\ len' = Cardinality(futures)
    /\ polled' = 0
    /\ yielded' = 0
    /\ pc' = "pn_loop"
    /\ UNCHANGED <<resultVars, drainedAt>>
    /\ Locking(NoLocks)
    /\ UNCHANGED <<scopeVars, bodyVars, curWoken, pjret, actorVars, cur,
                   notified, panicked, histVars>>

\* poll_next found the ready-to-run queue empty: Ready(None) when no future
\* is left, which ends the `while let` (scope.rs 62), Pending otherwise,
\* which `ready!` returns from poll_jobs.
PollNextEmpty ==
    /\ pc = "pn_loop"
    /\ rtr = <<>>
    /\ IF futures = {}
       THEN /\ pc' = "pj_tail"
            /\ UNCHANGED pjret
       ELSE /\ pjret' = PjPending
            /\ pc' = "pj_ret"
    /\ UNCHANGED <<resultVars, drainedAt>>
    /\ Locking(IF futures = {} THEN NoLocks ELSE PollJobsReturn)
    /\ UNCHANGED <<scopeVars, bodyVars, len, polled, yielded, curWoken,
                   actorVars, cur, notified, panicked, histVars>>

\* poll_next takes the next ready future and polls it.  The future pushed by
\* Scope::cancel is `async { panic!() }`: polling it panics.
PollNextDequeue ==
    /\ pc = "pn_loop"
    /\ rtr # <<>>
    /\ LET t == Head(rtr) IN
        /\ rtr' = Tail(rtr)
        /\ cur' = t
        /\ curWoken' = FALSE
        /\ IF kind[t] = "placeholder"
           THEN /\ panicked' = "explicit panic"
                /\ pc' = "panic"
                /\ UNCHANGED st
           ELSE /\ st' = [st EXCEPT ![t] = ResumeSt(t)]
                /\ pc' = "actor"
                /\ UNCHANGED panicked
    /\ UNCHANGED <<resultVars, drainedAt>>
    /\ Locking(IF kind[Head(rtr)] = "placeholder" THEN Unwind ELSE NoLocks)
    /\ UNCHANGED <<futures, enqueued, cancelled, bodyVars, len, polled, yielded,
                   pjret, ntasks, kind, on, hold, acc, chan, notified,
                   histVars>>

\* poll_next, the polled future returned Pending: it stays linked.  When a
\* future woke itself twice or every future has been polled, poll_next wakes
\* its caller and returns Pending; otherwise it goes on with the queue.
TaskPending ==
    /\ pc = "a_pending"
    /\ cur # 0
    /\ LET p == polled + 1
           y == yielded + (IF curWoken THEN 1 ELSE 0)
       IN /\ polled' = p
          /\ yielded' = y
          /\ IF y >= 2 \/ p = len
             THEN /\ notified' = TRUE
                  /\ pjret' = PjPending
                  /\ pc' = "pj_ret"
             ELSE /\ pc' = "pn_loop"
                  /\ UNCHANGED <<notified, pjret>>
    /\ UNCHANGED <<resultVars, drainedAt>>
    /\ Locking(IF yielded + (IF curWoken THEN 1 ELSE 0) >= 2 \/ polled + 1 = len
               THEN PollJobsReturn ELSE NoLocks)
    /\ UNCHANGED <<scopeVars, bodyVars, len, curWoken, actorVars, cur,
                   panicked, histVars>>

\* Mutant of CancelledAfterJob: the slot is not looked at after a job.
CancelledAfterJob_Ignored == FALSE

\* scope.rs 64: self.cancelled.lock().unwrap().is_some()
CancelledAfterJob == cancelled # None

\* poll_next returned Ready(Some(())): the future completed and is released.
\* scope.rs 63-66: if the scope is cancelled by now, back to the top of the
\* outer loop; otherwise poll_next is called again.
TaskReady ==
    /\ pc = "a_ready"
    /\ cur # 0
    /\ futures' = futures \ {cur}
    /\ pc' = IF CancelledAfterJob THEN "pj_check" ELSE "pn_start"
    /\ UNCHANGED <<resultVars, drainedAt>>
    /\ Locking(Briefly("cancelled"))
    /\ UNCHANGED <<rtr, enqueued, cancelled, bodyVars, loopVars, actorVars, cur,
                   notified, panicked, histVars>>

\* Mutant of NothingEnqueued: poll_jobs does not look at `enqueued` again.
NothingEnqueued_Unchecked == TRUE

\* scope.rs 69: self.enqueued.lock().unwrap().is_empty()
NothingEnqueued == enqueued = <<>>

\* scope.rs 69-71: every future completed; Ready(Ok(())) if nothing was
\* spawned meanwhile, else around the outer loop again.
PjTail ==
    /\ pc = "pj_tail"
    /\ IF NothingEnqueued
       THEN /\ pjret' = PjDrained
            /\ pc' = "pj_ret"
       ELSE /\ pc' = "pj_check"
            /\ UNCHANGED pjret
    /\ UNCHANGED <<resultVars, drainedAt>>
    /\ Locking(Briefly("enqueued")
                \o (IF NothingEnqueued THEN PollJobsReturn ELSE NoLocks))
    /\ UNCHANGED <<scopeVars, bodyVars, len, polled, yielded, curWoken,
                   actorVars, cur, notified, panicked, histVars>>

-----------------------------------------------------------------------------
\* What a resumed future does.  cur is the actor being polled; it runs
\* operation after operation until it suspends (Pending) or returns (Ready).

Running == pc = "actor" /\ st[cur] = "run"

\* The number the next pushed future gets.
NewTask == ntasks + 1

\* Mutant of OutputOf: the wrapper sends what the future received instead of
\* what it returned.
OutputOf_Received(a) == acc[a]

\* The value an actor's future returns: the body the sum of what its handles
\* delivered, a task its own number on top of that (so 1, 2 and 3 for three
\* tasks that await nothing, and 6 for a body that awaits the three).
OutputOf(a) == a + acc[a]

\* Mutant of Push: the future is not put on `enqueued`.
Push_Refused(q, t) == q

\* scope.rs 170, 204: self.enqueued.lock().unwrap().push(..)
Push(q, t) == Append(q, t)

\* Mutant of CancelStore: the slot is overwritten.
CancelStore_Overwrite(slot, value) == Some(value)

\* scope.rs 113-116: the slot is written only when it is empty.
CancelStore(slot, value) == IF slot = None THEN Some(value) ELSE slot

\* Scope::spawn / Scope::spawn_cancelling (scope.rs 152-181, 186-219): a
\* channel is made, the wrapped future is pushed on `enqueued`, the handle is
\* returned.  The caller keeps the handle or drops it at once.
OpSpawn ==
    /\ Running
    /\ ntasks < MaxTasks
    /\ \E k \in {"spawn", "spawn_cancelling"}, keep \in BOOLEAN :
        /\ ntasks' = NewTask
        /\ kind' = [kind EXCEPT ![NewTask] = k]
        /\ st' = [st EXCEPT ![NewTask] = "start"]
        /\ enqueued' = Push(enqueued, NewTask)
        /\ hold' = [hold EXCEPT ![cur] = IF keep THEN @ \cup {NewTask} ELSE @]
        /\ lateSpawn' = IF cancelled # None THEN lateSpawn \cup {NewTask}
                        ELSE lateSpawn
    /\ UNCHANGED <<resultVars, drainedAt>>
    /\ Locking(SpawnLocks)
    /\ UNCHANGED <<futures, rtr, cancelled, bodyVars, loopVars, on, acc, chan,
                   pc, cur, notified, panicked, firstTerm, lastTerm, erred>>

\* Scope::cancel (scope.rs 109-121): the value is stored if the slot is
\* empty, then `async { panic!() }` is spawned and its handle returned.  The
\* caller awaits the handle (aw) or drops it.
OpCancel ==
    /\ Running
    /\ ntasks < MaxTasks
    /\ \E value \in CancelVals, aw \in BOOLEAN :
        /\ cancelled' = CancelStore(cancelled, value)
        /\ firstTerm' = IF firstTerm = None THEN Some(value) ELSE firstTerm
        /\ lastTerm' = Some(value)
        /\ ntasks' = NewTask
        /\ kind' = [kind EXCEPT ![NewTask] = "placeholder"]
        /\ st' = [st EXCEPT ![NewTask] = "start",
                            ![cur] = IF aw THEN "recv" ELSE @]
        /\ on' = [on EXCEPT ![cur] = IF aw THEN NewTask ELSE @]
        /\ hold' = [hold EXCEPT ![cur] = IF aw THEN @ \cup {NewTask} ELSE @]
        /\ enqueued' = Push(enqueued, NewTask)
    /\ UNCHANGED <<resultVars, drainedAt>>
    /\ Locking(CancelLocks)
    /\ UNCHANGED <<futures, rtr, bodyVars, loopVars, acc, chan, pc, cur,
                   notified, panicked, lateSpawn, erred>>

\* The actor awaits a handle it owns: rx.recv().await (scope.rs 176, 214).
OpAwait ==
    /\ Running
    /\ \E c \in hold[cur] :
        /\ st' = [st EXCEPT ![cur] = "recv"]
        /\ on' = [on EXCEPT ![cur] = c]
    /\ UNCHANGED <<resultVars, drainedAt>>
    /\ Locking(NoLocks)
    /\ UNCHANGED <<scopeVars, bodyVars, loopVars, ntasks, kind, hold, acc, chan,
                   pc, cur, notified, panicked, histVars>>

\* rx.recv() finds the value: the handle resolves to it (scope.rs 177, 215)
\* and is consumed.
RecvReady ==
    /\ pc = "actor"
    /\ st[cur] = "recv"
    /\ chan[on[cur]] # None
    /\ acc' = [acc EXCEPT ![cur] = @ + chan[on[cur]][1]]
    /\ chan' = [chan EXCEPT ![on[cur]] = None]
    /\ hold' = [hold EXCEPT ![cur] = @ \ {on[cur]}]
    /\ st' = [st EXCEPT ![cur] = "run"]
    /\ on' = [on EXCEPT ![cur] = 0]
    /\ UNCHANGED <<resultVars, drainedAt>>
    /\ Locking(NoLocks)
    /\ UNCHANGED <<scopeVars, bodyVars, loopVars, ntasks, kind, pc, cur,
                   notified, panicked, histVars>>

\* rx.recv() finds the channel empty: the actor's waker is registered and the
\* future returns Pending.  If the sender is gone the channel is closed and
\* the handle panics (scope.rs 178, 216).
RecvPending ==
    /\ pc = "actor"
    /\ st[cur] = "recv"
    /\ chan[on[cur]] = None
    /\ IF Live(on[cur])
       THEN /\ pc' = "a_pending"
            /\ UNCHANGED panicked
       ELSE /\ panicked' = "unexpected error"
            /\ pc' = "panic"
    /\ UNCHANGED <<resultVars, drainedAt>>
    /\ Locking(IF Live(on[cur]) THEN NoLocks ELSE Unwind)
    /\ UNCHANGED <<scopeVars, bodyVars, loopVars, actorVars, cur, notified,
                   histVars>>

\* The actor awaits something outside the scope (a timer, a socket, another
\* channel) that is not ready: Pending until ExtFire.
OpExt ==
    /\ Running
    /\ st' = [st EXCEPT ![cur] = "ext"]
    /\ pc' = "a_pending"
    /\ UNCHANGED <<resultVars, drainedAt>>
    /\ Locking(NoLocks)
    /\ UNCHANGED <<scopeVars, bodyVars, loopVars, ntasks, kind, on, hold, acc,
                   chan, cur, notified, panicked, histVars>>

\* The body is polled on every Body::poll, also while the event it waits for
\* has not fired: it returns Pending again.
ExtStill ==
    /\ pc = "actor"
    /\ st[cur] = "ext"
    /\ pc' = "a_pending"
    /\ UNCHANGED <<resultVars, drainedAt>>
    /\ Locking(NoLocks)
    /\ UNCHANGED <<scopeVars, bodyVars, loopVars, actorVars, cur, notified,
                   panicked, histVars>>

\* A task yields: it wakes its own waker and returns Pending.  The waker marks
\* the task woken, puts it back on the ready-to-run queue (it was taken off to
\* be polled) and wakes the driver.  (The body's waker is the driver's: a
\* body that yields is a body whose event fires before the poll is over.)
OpYield ==
    /\ Running
    /\ cur # 0
    /\ st' = [st EXCEPT ![cur] = "ready"]
    /\ rtr' = Append(rtr, cur)
    /\ curWoken' = TRUE
    /\ notified' = TRUE
    /\ pc' = "a_pending"
    /\ UNCHANGED <<resultVars, drainedAt>>
    /\ Locking(NoLocks)
    /\ UNCHANGED <<futures, enqueued, cancelled, bodyVars, len, polled, yielded,
                   pjret, ntasks, kind, on, hold, acc, chan, cur, panicked,
                   histVars>>

\* Mutant of ChanAfterSend: the value is left in the channel although the
\* receiver is gone.
ChanAfterSend_Always(t) == Some(OutputOf(t))

\* Mutant of ChanAfterSend: the value is not sent.
ChanAfterSend_Dropped(t) == chan[t]

\* scope.rs 172, 207: `let _ = tx.send(v).await`.  The channel has room for
\* the one value; the send fails, and the error is ignored, when the receiver
\* was dropped.
ChanAfterSend(t) == IF HandleAlive(t) THEN Some(OutputOf(t)) ELSE chan[t]

\* The actor's future returns.  Its locals, the handles among them, are
\* dropped.  The body's value goes to Body::poll.  A spawned task's wrapper
\* (scope.rs 170-173, and 206-208 for Ok) sends the value on its channel:
\* the send fails and is ignored when the handle was dropped, and wakes the
\* actor waiting in recv otherwise.
OpReturn ==
    /\ Running
    /\ IF cur = 0
       THEN UNCHANGED <<chan, rtr, notified, acc>>
       ELSE /\ chan' = [chan EXCEPT ![cur] = ChanAfterSend(cur)]
            /\ rtr' = WakeRtr(Listeners(cur), rtr)
            /\ notified' = (notified \/ WakeNotifies(Listeners(cur), rtr))
            /\ acc' = [acc EXCEPT ![cur] = 0]
    /\ hold' = [hold EXCEPT ![cur] = {}]
    /\ st' = [st EXCEPT ![cur] = "done"]
    /\ pc' = "a_ready"
    /\ UNCHANGED <<resultVars, drainedAt>>
    /\ Locking(NoLocks)
    /\ UNCHANGED <<futures, enqueued, cancelled, bodyVars, loopVars, ntasks,
                   kind, on, cur, panicked, histVars>>

\* spawn_cancelling, the wrapped future returns Err(e) (scope.rs 209):
\* self.cancel(e).await.  Nothing is sent; the wrapper keeps its sender and
\* waits on the handle cancel returned.
OpReturnErr ==
    /\ Running
    /\ cur # 0
    /\ kind[cur] = "spawn_cancelling"
    /\ ntasks < MaxTasks
    /\ \E e \in CancelVals :
        /\ cancelled' = CancelStore(cancelled, e)
        /\ firstTerm' = IF firstTerm = None THEN Some(e) ELSE firstTerm
        /\ lastTerm' = Some(e)
    /\ ntasks' = NewTask
    /\ kind' = [kind EXCEPT ![NewTask] = "placeholder"]
    /\ st' = [st EXCEPT ![NewTask] = "start", ![cur] = "recv"]
    /\ on' = [on EXCEPT ![cur] = NewTask]
    /\ hold' = [hold EXCEPT ![cur] = {NewTask}]
    /\ enqueued' = Push(enqueued, NewTask)
    /\ erred' = erred \cup {cur}
    /\ UNCHANGED <<resultVars, drainedAt>>
    /\ Locking(CancelLocks)
    /\ UNCHANGED <<futures, rtr, bodyVars, loopVars, acc, chan, pc, cur,
                   notified, panicked, lateSpawn>>

\* The Results user code hands to Scope::cancel_if_err (scope.rs 139) or to
\* unwrap_or_cancel (result_ext.rs 26): Ok(o) or Err(c).
Results ==
    [by : {"cancel_if_err", "unwrap_or_cancel"}, ok : {TRUE}, v : 1..MaxVal]
    \cup
    [by : {"cancel_if_err", "unwrap_or_cancel"}, ok : {FALSE}, v : CancelVals]

\* Mutant of ErrOf: the Ok arm cancels too.
ErrOf_Always(r) == Some(r.v)

\* scope.rs 144-147, result_ext.rs 34-37: the match on the Result.  The
\* value to cancel with, or None for Ok.
ErrOf(r) == IF r.ok THEN None ELSE Some(r.v)

\* The actor calls scope.cancel_if_err(value).await or
\* value.unwrap_or_cancel(scope).await.
OpResult ==
    /\ Running
    /\ given = None
    /\ \E r \in Results :
        /\ ErrOf(r) # None => ntasks < MaxTasks
        /\ given' = Some(r)
    /\ st' = [st EXCEPT ![cur] = "call"]
    /\ UNCHANGED <<scopeVars, bodyVars, loopVars, ntasks, kind, on, hold, acc,
                   chan, pc, cur, notified, panicked, histVars, got,
                   drainedAt>>
    /\ Locking(NoLocks)

\* scope.rs 144-147 (result_ext.rs 34-37): Ok(o) is returned at once,
\* future::ready(o); Err(c) goes to self.cancel(c) (scope.rs 109-121), whose
\* future the caller is awaiting.
CancelIfErr ==
    /\ pc = "actor"
    /\ st[cur] = "call"
    /\ LET r == given[1]
           e == ErrOf(r)
       IN IF e = None
          THEN /\ got' = Some(r.v)
               /\ st' = [st EXCEPT ![cur] = "run"]
               /\ UNCHANGED <<cancelled, enqueued, ntasks, kind, on, hold,
                              firstTerm, lastTerm>>
          ELSE /\ cancelled' = CancelStore(cancelled, e[1])
               /\ firstTerm' = IF firstTerm = None THEN e ELSE firstTerm
               /\ lastTerm' = e
               /\ ntasks' = NewTask
               /\ kind' = [kind EXCEPT ![NewTask] = "placeholder"]
               /\ st' = [st EXCEPT ![NewTask] = "start", ![cur] = "recv"]
               /\ on' = [on EXCEPT ![cur] = NewTask]
               /\ hold' = [hold EXCEPT ![cur] = @ \cup {NewTask}]
               /\ enqueued' = Push(enqueued, NewTask)
               /\ UNCHANGED got
    /\ given' = None
    /\ UNCHANGED <<futures, rtr, bodyVars, loopVars, acc, chan, pc, cur,
                   notified, panicked, lateSpawn, erred, drainedAt>>
    /\ Locking(IF ErrOf(given[1]) = None THEN NoLocks ELSE CancelLocks)

\* The outside event an actor waits for fires and wakes it.  This is the only
\* step another thread takes.  It can come at any moment; it changes only the
\* ready-to-run queue, the driver's wake-up flag and the actor's own state,
\* which the driver reads between polls, when poll_next takes from the queue
\* and when it polls that actor, so it is enough to let it come between polls
\* and at each turn of poll_next's loop.
ExtFire ==
    /\ pc \in {"idle", "pn_loop"}
    /\ \E a \in Actors :
        /\ st[a] = "ext"
        /\ st' = [st EXCEPT ![a] = "ready"]
        /\ rtr' = WakeRtr({a}, rtr)
        /\ notified' = (notified \/ WakeNotifies({a}, rtr))
    /\ UNCHANGED <<resultVars, drainedAt, locks>>
    /\ UNCHANGED <<futures, enqueued, cancelled, bodyVars, loopVars, ntasks,
                   kind, on, hold, acc, chan, pc, cur, panicked, histVars>>

-----------------------------------------------------------------------------
\* Teardown: PinnedDrop for Body (body.rs 51-61) runs Body::clear
\* (body.rs 43-48), which runs Scope::clear (scope.rs 82-85); then the fields
\* are dropped, the Arc<Scope> among them.

\* Mutant of Discard: the futures are not dropped.
Discard_Nothing(S) == st

Discard(S) ==
    [a \in Actors |-> IF a \in S /\ Live(a)
                      THEN (IF st[a] = "start" THEN "discarded" ELSE "dropped")
                      ELSE st[a]]

Release(S) == [a \in Actors |-> IF a \in S THEN {} ELSE hold[a]]

\* The owner drops the Body: after it resolved, or while it is suspended.
DropBegin ==
    /\ pc \in {"idle", "resolved"}
    /\ pc' = "clear_body"
    /\ UNCHANGED <<resultVars, drainedAt>>
    /\ Locking(NoLocks)
    /\ UNCHANGED <<scopeVars, bodyVars, loopVars, actorVars, cur, notified,
                   panicked, histVars>>

\* body.rs 45: this.body_future.set(None)
ClearBodyFuture ==
    /\ pc = "clear_body"
    /\ body_future' = FALSE
    /\ st' = Discard({0})
    /\ hold' = Release({0})
    /\ pc' = "clear_result"
    /\ UNCHANGED <<resultVars, drainedAt>>
    /\ Locking(NoLocks)
    /\ UNCHANGED <<scopeVars, result, scope, output, loopVars, ntasks, kind, on,
                   acc, chan, cur, notified, panicked, histVars>>

\* body.rs 46: this.result.take()
ClearResult ==
    /\ pc = "clear_result"
    /\ result' = None
    /\ pc' = "clear_futures"
    /\ UNCHANGED <<resultVars, drainedAt>>
    /\ Locking(NoLocks)
    /\ UNCHANGED <<scopeVars, body_future, scope, output, loopVars, actorVars,
                   cur, notified, panicked, histVars>>

\* scope.rs 83: self.futures.lock().unwrap().clear()
ClearFutures ==
    /\ pc = "clear_futures"
    /\ st' = Discard(futures)
    /\ hold' = Release(futures)
    /\ futures' = {}
    /\ rtr' = <<>>
    /\ pc' = "clear_enqueued"
    /\ UNCHANGED <<resultVars, drainedAt>>
    /\ Locking(Briefly("futures"))
    /\ UNCHANGED <<enqueued, cancelled, bodyVars, loopVars, ntasks, kind, on,
                   acc, chan, cur, notified, panicked, histVars>>

\* scope.rs 84: self.enqueued.lock().unwrap().clear()
ClearEnqueued ==
    /\ pc = "clear_enqueued"
    /\ st' = Discard(SeqSet(enqueued))
    /\ hold' = Release(SeqSet(enqueued))
    /\ enqueued' = <<>>
    /\ pc' = "drop_fields"
    /\ UNCHANGED <<resultVars, drainedAt>>
    /\ Locking(Briefly("enqueued"))
    /\ UNCHANGED <<futures, rtr, cancelled, bodyVars, loopVars, ntasks, kind,
                   on, acc, chan, cur, notified, panicked, histVars>>

\* After drop() returns the fields of Body are dropped: the Arc<Scope> goes.
DropFields ==
    /\ pc = "drop_fields"
    /\ scope' = FALSE
    /\ pc' = "gone"
    /\ UNCHANGED <<resultVars, drainedAt>>
    /\ Locking(NoLocks)
    /\ UNCHANGED <<scopeVars, body_future, result, output, loopVars, actorVars,
                   cur, notified, panicked, histVars>>

-----------------------------------------------------------------------------
\* One step of the thread that polls (and later drops) the Body.
Drive ==
    \/ PollStart \/ PollBodyFuture \/ SkipBodyFuture \/ BodyReady
    \/ BodyPending \/ BodyMatch
    \/ PjCheckCancelled \/ PjExtend \/ PollNextStart \/ PollNextEmpty
    \/ PollNextDequeue \/ TaskPending \/ TaskReady \/ PjTail
    \/ OpSpawn \/ OpCancel \/ OpAwait \/ RecvReady \/ RecvPending
    \/ OpExt \/ ExtStill \/ OpYield \/ OpReturn \/ OpReturnErr

Teardown ==
    \/ DropBegin \/ ClearBodyFuture \/ ClearResult \/ ClearFutures
    \/ ClearEnqueued \/ DropFields

Next == Drive \/ ExtFire \/ Teardown

Spec == Init /\ [][Next]_vars

\* The executor polls a future whose waker was woken, and a poll, once
\* started, runs to its end: the steps of the polling thread are taken as
\* long as one is possible.  Nothing makes an outside event fire, and nothing
\* makes the owner drop the Body.
FairSpec == Spec /\ WF_vars(Drive)

-----------------------------------------------------------------------------
\* The scope with the calls of cancel_if_err and unwrap_or_cancel spelled out
\* as steps of their own.  They add no behaviour of the scope to Spec: the
\* Err case is OpCancel with the handle awaited, the Ok case changes nothing
\* but what the caller holds.
ResultNext == Next \/ OpResult \/ CancelIfErr

ResultSpec == Init /\ [][ResultNext]_vars

-----------------------------------------------------------------------------
\* The scope with the history of the driver kept: the steps of Next, the
\* match of body.rs 90-96 noting when it returns Pending on Ok(()).
DriveNoted ==
    \/ PollStart \/ PollBodyFuture \/ SkipBodyFuture \/ BodyReady
    \/ BodyPending \/ BodyMatchNoted
    \/ PjCheckCancelled \/ PjExtend \/ PollNextStart \/ PollNextEmpty
    \/ PollNextDequeue \/ TaskPending \/ TaskReady \/ PjTail
    \/ OpSpawn \/ OpCancel \/ OpAwait \/ RecvReady \/ RecvPending
    \/ OpExt \/ ExtStill \/ OpYield \/ OpReturn \/ OpReturnErr

DrainNext == DriveNoted \/ ExtFire \/ Teardown

DrainSpec == Init /\ [][DrainNext]_vars

-----------------------------------------------------------------------------
\* Vocabulary of the properties

\* The owner has begun to drop the Body.
InTeardown ==
    pc \in {"clear_body", "clear_result", "clear_futures", "clear_enqueued",
            "drop_fields", "gone"}

\* The futures pushed so far.
Spawned == 1..ntasks

AllSpawnedDone == \A t \in Spawned : st[t] = "done"

-----------------------------------------------------------------------------
\* C1  Join completeness.  As long as cancel has not been called, Body::poll
\* has not returned Ready while a spawned future that has not completed is in
\* `futures` or in `enqueued`: when it returns, both are empty and every
\* future spawned so far, by the body or by a task, has completed.
C1_JoinCompleteness ==
    (pc = "resolved" /\ firstTerm = None) =>
        /\ futures = {}
        /\ enqueued = <<>>
        /\ AllSpawnedDone

\* The scope resolved without a cancel call after two or more tasks ran.
C1_Witness ==
    /\ pc = "resolved"
    /\ firstTerm = None
    /\ ntasks >= 2
    /\ AllSpawnedDone

\* C2  Termination precedence.  Once a cancel call has stored its value,
\* Body::poll returns that value and never the body's result, also when the
\* body's result is already stored; and poll_jobs does not return
\* Ready(Ok(())) while the slot holds a value.
C2_TerminationPrecedence ==
    /\ (output # None /\ firstTerm # None) => output = firstTerm
    /\ pjret.tag = "drained" => cancelled = None

\* The scope resolved with the cancellation value while the body's result was
\* stored in `result`.
C2_Witness ==
    /\ pc = "resolved"
    /\ result # None
    /\ firstTerm # None
    /\ output = firstTerm

\* C3  Termination is eventually observed.  Whoever calls cancel, Body::poll
\* eventually returns the cancellation value (unless the owner drops the Body
\* first), the driver being polled exactly when its waker has been woken.
C3_TerminationObserved ==
    (firstTerm # None) ~> (output = firstTerm \/ InTeardown)

\* C4  First write wins.  The slot, while it holds a value, holds the value
\* of the first cancel call whatever later calls carried, and that is the
\* value poll_jobs takes out of it and Body::poll returns.
C4_FirstWriteWins ==
    /\ cancelled # None => cancelled = firstTerm
    /\ pjret.tag = "terminated" => Some(pjret.val) = firstTerm
    /\ (pc = "resolved" /\ firstTerm # None) => output = firstTerm

\* The scope resolved with the first value after a later call with another.
C4_Witness ==
    /\ pc = "resolved"
    /\ firstTerm # None
    /\ lastTerm # firstTerm
    /\ output = firstTerm

\* C5  Normal completion.  A run leaves the case of the claim when cancel is
\* called, when a task returns Pending (it does not complete when resumed),
\* when the body suspends on something that is not a handle, or when the
\* owner drops the Body.
C5_OutsideCase ==
    \/ firstTerm # None
    \/ pc = "a_pending" /\ cur # 0
    \/ st[0] \in {"ext", "ready"}
    \/ InTeardown

\* C5  In every run that stays in that case Body::poll eventually returns
\* Ready, and what it returns when cancel was not called is the value the
\* body returned, the sum of the values its handles delivered.
C5_NormalCompletion ==
    /\ <>(output # None \/ C5_OutsideCase)
    /\ []((output # None /\ firstTerm = None) => output = Some(acc[0]))

\* Three tasks returned 1, 2 and 3, the body awaited the three handles, and
\* the scope resolved with 6.
C5_Witness ==
    /\ pc = "resolved"
    /\ firstTerm = None
    /\ ntasks = 3
    /\ AllSpawnedDone
    /\ output = Some(6)

\* C6  Nested spawn makes progress.  When a task waits in rx.recv() on the
\* handle of a task it spawned, which has not been polled yet, that task is
\* eventually polled (unless the scope is cancelled or dropped first).
C6_NestedSpawnProgress ==
    \A b \in Tasks :
        (/\ st[b] = "start"
         /\ kind[b] # "placeholder"
         /\ \E a \in Tasks : st[a] = "recv" /\ on[a] = b)
        ~> (st[b] # "start" \/ firstTerm # None \/ InTeardown)

\* C7  spawn_cancelling.  The step in which the wrapped future returns Ok(v)
\* leaves the slot alone and puts v in the task's channel (when the handle
\* still exists); the step that takes a value out of a channel hands that
\* value to the actor awaiting the handle; the step in which the wrapped
\* future returns Err(e) sends nothing and stores e exactly if the slot is
\* empty; and the channel of a task that returned Err stays empty while the
\* task stays suspended for ever.
C7_OkStep ==
    (/\ pc = "actor"
     /\ cur # 0
     /\ st[cur] = "run"
     /\ kind[cur] = "spawn_cancelling"
     /\ st'[cur] = "done")
    => /\ cancelled' = cancelled
       /\ HandleAlive(cur) => chan'[cur] = Some(cur + acc[cur])

C7_RecvStep ==
    \A t \in Tasks :
        (chan[t] # None /\ chan'[t] = None) =>
            /\ t \in hold[cur]
            /\ acc'[cur] = acc[cur] + chan[t][1]

C7_ErrStep ==
    (erred' # erred) =>
        /\ chan' = chan
        /\ cancelled' = IF cancelled = None THEN lastTerm' ELSE cancelled

C7_SpawnCancellingRouting ==
    /\ [][C7_OkStep /\ C7_RecvStep /\ C7_ErrStep]_vars
    /\ [](\A t \in erred : chan[t] = None /\ st[t] \in {"recv", "dropped"})

\* One spawn_cancelling task returned Ok and its value is in its channel,
\* another returned Err after the slot had been filled by an earlier call.
C7_Witness ==
    /\ \E t \in Tasks :
        kind[t] = "spawn_cancelling" /\ st[t] = "done" /\ chan[t] # None
    /\ erred # {}
    /\ cancelled # None

\* C8  Late spawn admission.  poll_jobs returns Ready(Ok(())) only when
\* `futures` and `enqueued` are both empty, so every future spawned up to
\* then, those spawned by tasks during the call among them, has completed.
C8_LateSpawnAdmission ==
    pjret.tag = "drained" =>
        /\ futures = {}
        /\ enqueued = <<>>
        /\ AllSpawnedDone

\* Every future in `futures` has completed, and one of them spawned a task
\* during this call of poll_jobs: `enqueued` is not empty at scope.rs 69.
C8_Witness ==
    /\ pc = "pj_tail"
    /\ futures = {}
    /\ enqueued # <<>>

\* C9  The handle cancel returns never resolves.  The future cancel pushes is
\* never moved into `futures`, never polled (the panic does not happen) and
\* never sends, so an actor that awaits the handle stays in rx.recv().
C9_CancelNeverReturns ==
    /\ panicked # "explicit panic"
    /\ \A p \in Tasks : kind[p] = "placeholder" =>
        /\ p \notin futures
        /\ st[p] \in {"start", "discarded"}
        /\ chan[p] = None
        /\ \A a \in Actors : p \in hold[a] => st[a] = "recv" /\ on[a] = p

\* Two cancel calls were made, the second of which did not store its value,
\* the caller of one awaits the handle, and the scope has resolved.
C9_Witness ==
    /\ pc = "resolved"
    /\ lastTerm # firstTerm
    /\ \E p \in Tasks, a \in Actors :
        kind[p] = "placeholder" /\ st[a] = "recv" /\ on[a] = p

\* C10  Spawn after termination.  A future spawned while the slot held a
\* value was accepted (it is in `enqueued` until teardown discards it) and
\* is never in `futures`, never polled, and never sends.
C10_SpawnAfterTermination ==
    \A t \in lateSpawn :
        /\ InSeq(t, enqueued) \/ st[t] = "discarded"
        /\ t \notin futures
        /\ st[t] \in {"start", "discarded"}
        /\ chan[t] = None

\* A task was spawned after the slot was filled, and the scope has resolved.
C10_Witness ==
    /\ pc = "resolved"
    /\ lateSpawn # {}

-----------------------------------------------------------------------------
\* C11  At-most-one delivery.  A value appears in a task's channel only in
\* the step in which that task's future returns; the channel is empty then,
\* so the send does not wait, the task completes in that step, and the value
\* is what the task returned.  A completed task never runs again, and a value
\* in the channel is never replaced, so there is no second send.  A value
\* leaves the channel only to the actor awaiting that task's handle, which
\* consumes the handle; a task without a handle never gets one again.
C11_SendStep ==
    \A t \in Tasks :
        /\ (chan[t] = None /\ chan'[t] # None) =>
              /\ pc = "actor" /\ cur = t /\ st[t] = "run"
              /\ st'[t] = "done" /\ pc' = "a_ready"
              /\ chan'[t] = Some(t + acc[t])
        /\ chan[t] # None => chan'[t] \in {chan[t], None}
        /\ st[t] = "done" => st'[t] = "done"

C11_YieldStep ==
    \A t \in Tasks :
        /\ (chan[t] # None /\ chan'[t] = None) =>
              /\ st[cur] = "recv" /\ on[cur] = t /\ t \in hold[cur]
              /\ acc'[cur] = acc[cur] + chan[t][1]
              /\ \A a \in Actors : t \notin hold'[a]
        /\ (st[t] # "none" /\ \A a \in Actors : t \notin hold[a]) =>
              \A a \in Actors : t \notin hold'[a]

C11_AtMostOneDelivery ==
    /\ [][C11_SendStep /\ C11_YieldStep]_vars
    /\ [](\A t \in Tasks : chan[t] # None => st[t] = "done")

\* The body has received the value of one task, the value of another task
\* waits in its channel.
C11_Witness ==
    /\ acc[0] > 0
    /\ \E t \in Tasks : chan[t] # None /\ t \in hold[0]

-----------------------------------------------------------------------------
\* C12  A task whose handle was dropped.  A future pushed by spawn that has
\* not been polled yet is in `enqueued` or linked in `futures` and on the
\* ready-to-run queue, whether or not anyone owns its handle.  The step in
\* which such a task returns while no handle exists (the send fails) changes
\* neither its channel nor the slot, raises no panic and completes the task.
\* And Body::poll does not return the body's result while a task pushed by
\* spawn has not returned.
C12_Unowned(t) == \A a \in Actors : t \notin hold[a]

C12_FailedSendStep ==
    (/\ pc = "actor"
     /\ cur # 0
     /\ kind[cur] = "spawn"
     /\ st[cur] = "run"
     /\ st'[cur] = "done"
     /\ C12_Unowned(cur))
    => /\ chan' = chan
       /\ cancelled' = cancelled
       /\ firstTerm' = firstTerm
       /\ panicked' = ""
       /\ pc' = "a_ready"

-----------------------------------------------------------------------------
\* C13  cancel_if_err / unwrap_or_cancel.  Given Ok(o), the call returns o
\* and the caller runs on in the same poll; the slot, `enqueued`, `futures`
\* and the number of futures pushed are as before.  Given Err(e), the call
\* makes one cancel call with e: e is the latest cancel value, it is stored
\* exactly if the slot was empty, one placeholder is pushed, and the caller
\* waits on its handle.  An actor that waits on a placeholder's handle stays
\* there until it is dropped.
C13_OkStep ==
    (given # None /\ given' = None /\ given[1].ok) =>
        /\ got' = Some(given[1].v)
        /\ st'[cur] = "run"
        /\ pc' = "actor"
        /\ cancelled' = cancelled
        /\ enqueued' = enqueued
        /\ futures' = futures
        /\ rtr' = rtr
        /\ ntasks' = ntasks
        /\ firstTerm' = firstTerm
        /\ lastTerm' = lastTerm

C13_ErrStep ==
    (given # None /\ given' = None /\ ~given[1].ok) =>
        /\ got' = got
        /\ lastTerm' = Some(given[1].v)
        /\ cancelled' = IF cancelled = None THEN Some(given[1].v)
                        ELSE cancelled
        /\ ntasks' = ntasks + 1
        /\ kind'[ntasks + 1] = "placeholder"
        /\ enqueued' = Append(enqueued, ntasks + 1)
        /\ futures' = futures
        /\ st'[cur] = "recv"
        /\ on'[cur] = ntasks + 1

C13_NoReturnStep ==
    \A a \in Actors :
        (st[a] = "recv" /\ kind[on[a]] = "placeholder") =>
            /\ st'[a] \in {"recv", "dropped"}
            /\ on'[a] = on[a]

C13_ResultHelpers ==
    [][C13_OkStep /\ C13_ErrStep /\ C13_NoReturnStep]_vars

\* A call given Ok has returned its value; later a call given Err made its
\* cancel call and the scope resolved with that value while the caller is
\* still waiting.
C13_Witness ==
    /\ got # None
    /\ pc = "resolved"
    /\ output = lastTerm
    /\ output = firstTerm
    /\ \E a \in Actors : st[a] = "recv" /\ kind[on[a]] = "placeholder"

-----------------------------------------------------------------------------
\* C14  No handle sees its channel closed without a value.  As long as a
\* handle exists, the channel holds the task's value or the task's future,
\* which owns the sender, exists and has not returned; so whenever the
\* handle is polled, rx.recv() finds a value or an open channel, and the
\* panic of scope.rs 178 / 216 does not happen.  Teardown drops the holder of
\* a handle no later than the future that owns its sender.
C14_NoClosedChannel ==
    /\ panicked # "unexpected error"
    /\ \A a \in Actors : \A t \in hold[a] : chan[t] # None \/ Live(t)
    /\ \A a \in Actors :
        st[a] = "recv" => chan[on[a]] # None \/ Live(on[a])

\* After a cancel call the Body is being dropped: a task that was waiting on
\* a handle has been dropped, and the future owning the sender of that
\* channel has been discarded without ever sending.
C14_Witness ==
    /\ InTeardown
    /\ firstTerm # None
    /\ \E a \in Tasks :
        /\ st[a] = "dropped"
        /\ on[a] # 0
        /\ st[on[a]] = "discarded"
        /\ chan[on[a]] = None

-----------------------------------------------------------------------------
\* C15  poll_jobs returns Pending only with `enqueued` empty, unless the
\* slot holds a value: every future pushed during the call has been moved
\* into `futures` by then.
C15_PendingOnlyWhenMerged ==
    pjret.tag = "pending" => (enqueued = <<>> \/ cancelled # None)

-----------------------------------------------------------------------------
\* C16  Termination is not synchronous (the claim as made).  cur is a task
\* exactly when a future has been polled in the current call of poll_jobs,
\* and only then can the slot have been filled during the call (the first
\* look at the slot, scope.rs 56, comes before any poll): a call in which a
\* task filled the slot does not return Ready(Err(value)).
C16_NotInSameCall ==
    pjret.tag = "terminated" => cur = 0

\* C16 as amended.  The slot is emptied only by the look at scope.rs 56,
\* which returns its value.  A call in which a task filled the slot returns
\* that value itself exactly when a job completes after the store (scope.rs
\* 64-65), and then at once: poll_next is not called again, nothing is
\* merged, with a value in the slot.  Otherwise the value stays in the slot
\* and the first look of the next call returns it.
C16_TakenOnlyByCheck ==
    /\ (pc = "pj_check" /\ cancelled # None) =>
          /\ pjret' = PjTerminated(cancelled[1])
          /\ pc' = "pj_ret"
    /\ cancelled # None =>
          \/ cancelled' = cancelled
          \/ pc = "pj_check" /\ cancelled' = None

C16_TerminationTiming ==
    /\ [][C16_TakenOnlyByCheck]_vars
    /\ []((pjret.tag = "terminated" /\ cur # 0) => st[cur] = "done")
    /\ [](pc \in {"pj_extend", "pn_start", "pj_tail"} => cancelled = None)
    /\ []((pjret.tag = "pending" /\ cancelled # None) =>
            (cur # 0 /\ st[cur] # "done"))

\* A task called cancel and waits on the placeholder; a job polled after it
\* in the same call completed, and the call returned the value.
C16_Witness ==
    /\ pc = "pj_ret"
    /\ pjret.tag = "terminated"
    /\ cur # 0
    /\ \E t \in Tasks :
        t # cur /\ st[t] = "recv" /\ kind[on[t]] = "placeholder"

-----------------------------------------------------------------------------
\* C17  No job is resumed after termination.  Once a cancel call has been
\* made, poll_next takes no future off the ready-to-run queue to poll it,
\* neither in the rest of that call of poll_jobs nor in a later one.
C17_NoResumeAfterTermination ==
    [][(firstTerm # None) =>
          ~(pc = "pn_loop" /\ pc' \in {"actor", "panic"})]_vars

-----------------------------------------------------------------------------
\* C18  Partition.  Until the Body is dropped, every future that was pushed
\* and has not returned is either once in `enqueued` or linked in `futures`,
\* never both, never neither; one that returned is in neither, but for the
\* moment in which poll_next, having just polled it, releases it.  A future
\* gets into `enqueued` by the push of its spawn, into `futures` only by the
\* merge of scope.rs 60, which takes it out of `enqueued`, and out of
\* `futures` only when it has returned (or when everything is cleared).
C18_Places ==
    ~InTeardown =>
        /\ Len(enqueued) = Cardinality(SeqSet(enqueued))
        /\ futures \cup SeqSet(enqueued) \subseteq Spawned
        /\ \A t \in Spawned :
            IF st[t] = "done"
            THEN /\ ~InSeq(t, enqueued)
                 /\ t \in futures => (pc = "a_ready" /\ cur = t)
            ELSE InSeq(t, enqueued) # (t \in futures)

C18_Moves ==
    /\ ntasks' # ntasks =>
          /\ ntasks' = ntasks + 1
          /\ enqueued' = Append(enqueued, ntasks + 1)
          /\ futures' = futures
    /\ \A t \in Tasks :
        /\ (~InSeq(t, enqueued) /\ InSeq(t, enqueued')) => t = ntasks + 1
        /\ (t \notin futures /\ t \in futures') =>
              /\ pc = "pj_extend"
              /\ InSeq(t, enqueued)
              /\ ~InSeq(t, enqueued')
        /\ (InSeq(t, enqueued) /\ ~InSeq(t, enqueued')) =>
              \/ pc = "pj_extend" /\ t \in futures'
              \/ pc = "clear_enqueued"
        /\ (t \in futures /\ t \notin futures') =>
              \/ pc = "a_ready" /\ cur = t /\ st[t] = "done"
              \/ pc = "clear_futures"

C18_Partition == [][C18_Moves]_vars /\ []C18_Places

\* One future is in `enqueued`, another is linked in `futures`, a third has
\* returned and been released.
C18_Witness ==
    /\ ~InTeardown
    /\ enqueued # <<>>
    /\ \E t \in futures : st[t] # "done"
    /\ \E t \in Spawned :
        st[t] = "done" /\ t \notin futures

-----------------------------------------------------------------------------
\* C19  Teardown order.  However the Body comes to be dropped (resolved with
\* the body's result, resolved with a cancellation value, or suspended), the
\* body future and the stored result go first, then the futures in
\* `futures`, then those in `enqueued`, and only then the Arc<Scope>; once
\* the Scope is released no body future, no result and no spawned future
\* exists.
C19_NothingLeft ==
    /\ ~body_future
    /\ result = None
    /\ futures = {}
    /\ enqueued = <<>>
    /\ \A a \in Actors : ~Live(a)

C19_Order ==
    /\ pc \in {"clear_futures", "clear_enqueued", "drop_fields", "gone"} =>
          ~body_future /\ result = None /\ ~Live(0)
    /\ pc \in {"clear_enqueued", "drop_fields", "gone"} =>
          futures = {} /\ \A t \in Tasks : Live(t) => InSeq(t, enqueued)
    /\ pc \in {"drop_fields", "gone"} => C19_NothingLeft
    /\ ~scope => pc = "gone"
    /\ ~InTeardown => scope

C19_ReleaseStep ==
    /\ (scope /\ ~scope') => (pc = "drop_fields" /\ C19_NothingLeft)
    /\ ~scope => ~scope'

C19_TeardownOrder == [][C19_ReleaseStep]_vars /\ []C19_Order

\* The Body was dropped while suspended: the body future was dropped in
\* mid-flight, a task that had been polled and one that never was were
\* dropped, and the Scope has been released.
C19_Witness ==
    /\ ~scope
    /\ output = None
    /\ st[0] = "dropped"
    /\ \E t \in Tasks : st[t] = "dropped"
    /\ \E t \in Tasks : st[t] = "discarded"

-----------------------------------------------------------------------------
\* C20  Resume cycle.  Each Body::poll begins with the body future if and
\* only if it is still there, and it is there until it returned: a body
\* that returned is never polled again.  Then poll_jobs is called, whether
\* the body returned now, earlier, or is pending; the poll ends only with
\* what that call returned and ends as soon as it returned, so the call is
\* made exactly once.
C20_BodyFirst ==
    /\ pc = "body" =>
          IF body_future THEN pc' = "actor" /\ cur' = 0
          ELSE pc' = "pj_check"
    /\ (pc' = "actor" /\ cur' = 0 /\ pc # "actor") => (pc = "body" /\ body_future)
    /\ st[0] = "done" => st'[0] = "done"

C20_JobsOnce ==
    /\ (pc \in {"a_ready", "a_pending"} /\ cur = 0) => pc' = "pj_check"
    /\ (pc' = "pj_check" /\ pc \in {"body", "a_ready", "a_pending"} /\ cur = 0) =>
          pjret = PjNone
    /\ (pc # "pj_ret" /\ pc' = "pj_ret") => pjret = PjNone /\ pjret' # PjNone
    /\ pc = "pj_ret" => pc' \in {"idle", "resolved"} /\ pjret' = PjNone
    /\ (pc \notin {"idle", "resolved"} /\ pc' \in {"idle", "resolved"}) =>
          pc = "pj_ret" /\ pjret # PjNone

C20_ResumeCycle ==
    /\ [][C20_BodyFirst /\ C20_JobsOnce]_vars
    /\ [](IF body_future
          THEN Live(0) \/ (st[0] = "done" /\ pc = "a_ready" /\ cur = 0)
          ELSE ~Live(0))
    /\ []((pc \in {"actor", "a_ready", "a_pending"} /\ cur = 0) =>
            (body_future /\ pjret = PjNone))

\* The body returned in an earlier poll and its result is stored; in this
\* poll the body was skipped and poll_jobs is polling a spawned task.
C20_Witness ==
    /\ pc = "actor"
    /\ cur # 0
    /\ ~body_future
    /\ result # None
    /\ notified = FALSE
    /\ pjret = PjNone

-----------------------------------------------------------------------------
\* C21: Ok(()) from poll_jobs is not final.  When poll_jobs returns
\* Ready(Ok(())) while the body has stored no result, Body::poll returns
\* Pending and the Body keeps its body future and its scope; the next future
\* pushed is pushed by the body; what is pushed after that return is moved
\* into `futures` and put on the ready-to-run queue by the drain of a later
\* poll_jobs call, the first of them is polled before the Body::poll call
\* that pushed it returns (unless a cancel call was made or a future
\* panicked), and Body::poll does not return the body's result while one of
\* them has not completed.

\* The futures pushed since poll_jobs last returned Ok(()) with the body
\* pending.
C21_SpawnedAfter ==
    IF drainedAt = None THEN {} ELSE {t \in Spawned : t > drainedAt[1]}

C21_StaysSuspended ==
    (pc = "pj_ret" /\ DrainedEarly) =>
        /\ body_future /\ Live(0)
        /\ \A t \in Spawned : ~Live(t)
        /\ pc' = "idle" /\ output' = None
        /\ body_future' /\ scope' /\ result' = None

C21_BodySpawnsNext ==
    (drainedAt # None /\ ntasks = drainedAt[1] /\ ntasks' # ntasks) =>
        /\ pc = "actor" /\ cur = 0
        /\ ntasks' = ntasks + 1
        /\ InSeq(ntasks', enqueued')

C21_AdmittedLater ==
    pc = "pj_extend" =>
        \A t \in C21_SpawnedAfter :
            InSeq(t, enqueued) => (t \in futures' /\ InSeq(t, rtr'))

C21_NotLost ==
    \A t \in C21_SpawnedAfter :
        (st[t] = "start" /\ ~InTeardown) =>
            (InSeq(t, enqueued) \/ (t \in futures /\ InSeq(t, rtr)))

C21_FirstDriven ==
    (pc = "idle" /\ drainedAt # None /\ ntasks > drainedAt[1]
        /\ firstTerm = None /\ panicked = "") =>
        st[drainedAt[1] + 1] # "start"

C21_WaitedFor ==
    (output # None /\ output[1] \notin CancelVals) =>
        \A t \in C21_SpawnedAfter : st[t] = "done"

C21_DrainedNotFinal ==
    /\ [][C21_StaysSuspended /\ C21_BodySpawnsNext /\ C21_AdmittedLater]_vars
    /\ [](C21_NotLost /\ C21_FirstDriven /\ C21_WaitedFor)

\* poll_jobs returned Ok(()) with the body pending after task 1 had completed;
\* the body then spawned tasks 2 and 3, both completed, and the scope
\* resolved with the body's result.
C21_Witness ==
    /\ drainedAt = Some(1)
    /\ ntasks = 3
    /\ kind[2] # "placeholder" /\ kind[3] # "placeholder"
    /\ pc = "resolved"
    /\ output # None /\ output[1] \notin CancelVals
    /\ \A t \in Spawned : st[t] = "done"

-----------------------------------------------------------------------------
\* C22: spawning and cancelling are legal while tasks are being driven.
\* poll_jobs holds the guard of `futures` from its entry to its return and
\* the thread holds none of the three guards outside it; spawn,
\* spawn_cancelling and cancel called by a task polled inside poll_jobs lock
\* only `enqueued` and `cancelled`, never `futures`, and leave the guard of
\* `futures` where it is; no mutex is ever locked while `cancelled` or
\* `enqueued` is held, so cancel has released `cancelled` when it pushes its
\* placeholder; and the polling thread is never blocked on a mutex it holds.

\* The thread is inside poll_jobs: in its own code or polling a task.
C22_InPollJobs ==
    \/ pc \in {"pj_check", "pj_extend", "pn_start", "pn_loop", "pj_tail"}
    \/ (pc \in {"actor", "a_ready", "a_pending"} /\ cur # 0)

C22_HeldForWholeCall ==
    /\ C22_InPollJobs => locks.held = {"futures"}
    /\ (~C22_InPollJobs /\ pc # "panic") => locks.held = {}

C22_NeverBlocked == locks.waits = None

C22_LockOrder ==
    locks.order \subseteq {<<"futures", "cancelled">>, <<"futures", "enqueued">>}

C22_TaskCallStep ==
    (pc = "actor" /\ cur # 0 /\ pc' # "panic") =>
        /\ locks'.held = {"futures"}
        /\ locks'.waits = None
        /\ locks'.order \ locks.order \subseteq
               {<<"futures", "cancelled">>, <<"futures", "enqueued">>}

C22_SpawnWhileDriven ==
    /\ [](C22_HeldForWholeCall /\ C22_NeverBlocked /\ C22_LockOrder)
    /\ [][C22_TaskCallStep]_vars

\* Inside one poll_jobs call, with the guard of `futures` held, the task
\* being polled has spawned a task and then called cancel: both futures are
\* in `enqueued` and the value is in the slot.
C22_Witness ==
    /\ pc = "actor"
    /\ cur # 0
    /\ locks.held = {"futures"}
    /\ locks.waits = None
    /\ Len(enqueued) = 2
    /\ kind[enqueued[1]] # "placeholder"
    /\ kind[enqueued[2]] = "placeholder"
    /\ cancelled # None
    /\ on[cur] = enqueued[2]

=============================================================================
